---------------------------- MODULE Spec2Model ----------------------------
(***************************************************************************)
(* A model of src/dataio/suntans/sunboundary.py: the Boundary class (its   *)
(* topology resolution, time axis, field store, source integrations and    *)
(* NetCDF persistence), the InitialCond class (its field arrays and source *)
(* integrations) and the marker editor modifyBCmarker.                     *)
(*                                                                         *)
(* numpy arrays are records [shape, data]: shape is the tuple of dimension *)
(* sizes, data maps every index tuple (1-based here) to the element.       *)
(* Mesh edge and cell indices keep the code's values: 0-based, -1 for "no  *)
(* cell".  Element values are integers: every value the model adds is      *)
(* exactly representable, so no rounding is modelled.                      *)
(***************************************************************************)
EXTENDS Integers, Sequences, FiniteSets, TLC

VARIABLES
    mesh,     \* the grid as stored in suntanspath (edges.dat): mark, grad, edge_id, Nkmax
    bnd,      \* the Boundary object (its __dict__), or NoBnd before construction
    ncfile,   \* the NetCDF file written by write2NC, or NoFile
    loaded,   \* the Boundary constructed from ncfile, or NoBnd
    last,     \* the last call made: its name, its inputs and its outcome
    prev,     \* the object the last call started from
    last2,    \* the call before the last one
    prev2,    \* the object the call before the last one started from
    budget,   \* number of calls the run may still make
    ic        \* the InitialCond object (its __dict__), or NoIC before construction

vars == <<mesh, bnd, ncfile, loaded, last, prev, last2, prev2, budget, ic>>

NoBnd == [none |-> TRUE]
NoIC == [noic |-> TRUE]
NoFile == [nofile |-> TRUE]
NoCall == [op |-> "none"]

---------------------------------------------------------------------------
(* Bounds of the model *)

MaxEdges == 2      \* edges of a mesh
MaxCells == 2      \* cells of a mesh: ids 0 .. MaxCells-1
MaxSegId == 2      \* segment tags 0 .. MaxSegId
MaxNk == 2         \* vertical layers
MaxT == 6          \* start and end instants of a time specification: 0 .. MaxT
MaxDt == 3         \* time steps 1 .. MaxDt
MaxCalls == 2      \* calls made on one Boundary
MaxAccCalls == 3   \* calls made on one Boundary when only roms2boundary and
                   \* oceanmodel2bdy are called
MaxPoly == 2       \* polygons of a shapefile
MaxQueryCalls == 1 \* calls of otis2boundary made on one queried Boundary
MaxFilter == 2     \* values dx passed to filteric: 1 .. MaxFilter

---------------------------------------------------------------------------
(* numpy arrays *)

Max(a, b) == IF a >= b THEN a ELSE b

RECURSIVE SetToSortedSeq(_)
\* np.unique: the sorted sequence of the distinct values
SetToSortedSeq(S) ==
    IF S = {} THEN <<>>
    ELSE LET m == CHOOSE x \in S : \A y \in S : x <= y
         IN <<m>> \o SetToSortedSeq(S \ {m})

Range(s) == {s[i] : i \in DOMAIN s}

\* every index tuple of an array of the given shape (rank 1, 2 or 3)
Idx(shape) ==
    IF Len(shape) = 1 THEN {<<i>> : i \in 1..shape[1]}
    ELSE IF Len(shape) = 2 THEN (1..shape[1]) \X (1..shape[2])
    ELSE IF Len(shape) = 3 THEN (1..shape[1]) \X (1..shape[2]) \X (1..shape[3])
    ELSE LET RECURSIVE Go(_)
             Go(d) == IF d > Len(shape) THEN {<<>>}
                      ELSE {<<i>> \o r : i \in 1..shape[d], r \in Go(d + 1)}
         IN Go(1)

\* np.zeros(shape)
Zeros(shape) == [shape |-> shape, data |-> [i \in Idx(shape) |-> 0]]

\* numpy broadcasting of b against a target shape: trailing dimensions are
\* aligned, and each dimension of b is the target's or 1
Broadcastable(bshape, ashape) ==
    /\ Len(bshape) <= Len(ashape)
    /\ \A d \in 1..Len(bshape) :
          LET ad == ashape[d + Len(ashape) - Len(bshape)]
          IN bshape[d] = ad \/ bshape[d] = 1

\* the element of b that broadcasting puts at index i of the target
BGet(b, i) ==
    LET rb == Len(b.shape)
        ra == Len(i)
    IN b.data[[d \in 1..rb |-> IF b.shape[d] = 1 THEN 1 ELSE i[d + ra - rb]]]

\* a += b : in place, a keeps its shape
IAdd(a, b) == [shape |-> a.shape,
               data |-> [i \in Idx(a.shape) |-> a.data[i] + BGet(b, i)]]

\* a[:] = b : in place, a keeps its shape
ISet(a, b) == [shape |-> a.shape,
               data |-> [i \in Idx(a.shape) |-> BGet(b, i)]]

\* a = np.append(a, U[:,None,:], axis=1) : a layer is appended instead of
\* added to, and the array grows
IAddLayerAppend(a, k, U) ==
    LET shape == <<a.shape[1], a.shape[2] + 1, a.shape[3]>>
    IN [shape |-> shape,
        data |-> [i \in Idx(shape) |->
                    IF i[2] <= a.shape[2] THEN a.data[i]
                    ELSE BGet(U, <<i[1], i[3]>>)]]

\* a[:,k,:] += U   (k is 1-based here)
IAddLayer(a, k, U) ==
    [shape |-> a.shape,
     data |-> [i \in Idx(a.shape) |->
                 IF i[2] = k THEN a.data[i] + BGet(U, <<i[1], i[3]>>)
                 ELSE a.data[i]]]

\* a[:,ii] += r    (ii is 1-based here)
IAddCol(a, ii, r) ==
    [shape |-> a.shape,
     data |-> [i \in Idx(a.shape) |->
                 IF i[2] = ii THEN a.data[i] + BGet(r, <<i[1]>>)
                 ELSE a.data[i]]]

\* the element-wise sum of two arrays of one shape
ArrSum(a, b) == [shape |-> a.shape,
                 data |-> [i \in Idx(a.shape) |-> a.data[i] + b.data[i]]]

\* the position of index i in the C-order (row-major) layout of an array
LinIdx(i, shape) ==
    LET RECURSIVE Go(_, _)
        Go(d, acc) == IF d > Len(shape) THEN acc
                      ELSE Go(d + 1, acc * shape[d] + (i[d] - 1))
    IN Go(1, 0)

\* a.reshape(newshape): same elements in C order (the sizes must agree)
Reshape(a, newshape) ==
    [shape |-> newshape,
     data |-> [j \in Idx(newshape) |->
                 a.data[CHOOSE i \in Idx(a.shape) :
                           LinIdx(i, a.shape) = LinIdx(j, newshape)]]]

\* a one-dimensional array holding the sequence s
Arr1(s) == [shape |-> <<Len(s)>>, data |-> [i \in Idx(<<Len(s)>>) |-> s[i[1]]]]

\* an array of shape (n,1) holding the sequence s: the result of np.argwhere
\* on a one-dimensional array, and of indexing with it
ArrCol(s) == [shape |-> <<Len(s), 1>>,
              data |-> [i \in Idx(<<Len(s), 1>>) |-> s[i[1]]]]

\* the elements of an array in C order
Flat(a) ==
    LET n == Cardinality(Idx(a.shape))
    IN [p \in 1..n |-> a.data[CHOOSE i \in Idx(a.shape) : LinIdx(i, a.shape) = p - 1]]

\* v[i] for a 0-based index i; a negative index counts from the end
PyIndex(v, i) == IF i < 0 THEN v[Len(v) + 1 + i] ELSE v[i + 1]

\* setting attributes on an object: r's fields are added to, or replace, b's
SetAttrs(b, r) == r @@ b

---------------------------------------------------------------------------
(* The mesh (sunpy.Grid): per-edge marker, adjacency and segment tag *)

Cells == 0..(MaxCells - 1)

\* adjacency of one edge: <<c,-1>> and <<-1,c>> are boundary edges, <<c1,c2>>
\* with two cells is an interior edge, <<-1,-1>> an edge without cells
Grads == {<<c, -1>> : c \in Cells} \cup {<<-1, c>> : c \in Cells}
            \cup {<<0, MaxCells - 1>>, <<-1, -1>>}

Markers == 0..3

Meshes ==
    [mark : [1..MaxEdges -> Markers],
     grad : [1..MaxEdges -> Grads],
     edge_id : [1..MaxEdges -> 0..MaxSegId],
     Nkmax : {MaxNk}]

\* np.argwhere(mask) on a one-dimensional boolean array: the 0-based
\* positions that hold TRUE, in order
RECURSIVE ArgWhereFrom(_, _)
ArgWhereFrom(mask, n) ==
    IF n > Len(mask) THEN <<>>
    ELSE (IF mask[n] THEN <<n - 1>> ELSE <<>>) \o ArgWhereFrom(mask, n + 1)

ArgWhere(mask) == ArgWhereFrom(mask, 1)

---------------------------------------------------------------------------
(* Boundary._loadBoundary *)

\* the loop over the type-3 edges: the cell on the side that is not -1
RECURSIVE CellpLoop(_, _, _)
CellpLoop(grad, ind3, n) ==
    IF n > Len(ind3) THEN <<>>
    ELSE LET c1 == grad[ind3[n] + 1][1]
             c2 == grad[ind3[n] + 1][2]
         IN (IF c1 = -1 THEN <<c2>>
             ELSE IF c2 = -1 THEN <<c1>>
             ELSE <<>>) \o CellpLoop(grad, ind3, n + 1)

\* the pointer from each type-2 edge to its segment
SegedgepLoop(edge_id, ind2) ==
    [n \in 1..Len(ind2) |->
        IF edge_id[ind2[n] + 1] > 0 THEN edge_id[ind2[n] + 1] ELSE 0]

\* self.cellp = np.unique(cellp)
UniqueCells(cellp) == SetToSortedSeq(Range(cellp))

_loadBoundary(self) ==
    LET grd == self.grd
        ind2 == ArgWhere([e \in DOMAIN grd.mark |-> grd.mark[e] = 2])
        ind3 == ArgWhere([e \in DOMAIN grd.mark |-> grd.mark[e] = 3])
        N2 == Len(ind2)
        cellp == CellpLoop(grd.grad, ind3, 1)
        ucellp == UniqueCells(cellp)
        indseg == ArgWhere([e \in DOMAIN grd.edge_id |-> grd.edge_id[e] > 0])
        segp == SetToSortedSeq({grd.edge_id[e + 1] : e \in Range(indseg)})
        s1 == SetAttrs(self, [edgep |-> ArrCol(ind2), N2 |-> N2, N3 |-> Len(cellp)])
        s2 == IF Len(cellp) > 0
              THEN SetAttrs(s1, [cellp |-> Arr1(ucellp), N3 |-> Len(ucellp)])
              ELSE s1
        s3 == IF N2 > 0
              THEN SetAttrs(s2, [segp |-> Arr1(segp), Nseg |-> Len(segp),
                                 segedgep |-> ArrCol(SegedgepLoop(grd.edge_id, ind2))])
              ELSE SetAttrs(s2, [Nseg |-> 0])
    IN SetAttrs(s3, [Nk |-> grd.Nkmax])

---------------------------------------------------------------------------
(* Boundary.getTime and ncTime.  An instant (datetime) is a number of      *)
(* seconds on a timeline on which 1990-01-01 00:00:00 is at Epoch.         *)

Epoch == 10

RECURSIVE TimeLoopExclusive(_, _, _)
\* the loop with "while t0 < t2": the end instant is left out
TimeLoopExclusive(t0, t2, dt) ==
    IF t0 < t2 THEN <<t0>> \o TimeLoopExclusive(t0 + dt, t2, dt) ELSE <<>>

RECURSIVE TimeLoop(_, _, _)
\* t0 = t1; while t0 <= t2: append t0; t0 += dt
TimeLoop(t0, t2, dt) ==
    IF t0 <= t2 THEN <<t0>> \o TimeLoop(t0 + dt, t2, dt) ELSE <<>>

ncTime(self) == Arr1([n \in 1..Len(self.time) |-> self.time[n] - Epoch])

getTime(self) ==
    LET time == TimeLoop(self.timeinfo[1], self.timeinfo[2], self.timeinfo[3])
        s1 == SetAttrs(self, [time |-> time, Nt |-> Len(time)])
    IN SetAttrs(s1, [tsec |-> ncTime(s1)])

---------------------------------------------------------------------------
(* Boundary.initArrays and Boundary.__init__ *)

Fields2D == {"boundary_h", "h", "boundary_Q"}
Fields3D == {"boundary_u", "boundary_v", "boundary_w", "boundary_T", "boundary_S",
             "uc", "vc", "wc", "T", "S"}
FieldNames == Fields2D \cup Fields3D

initArrays(self) ==
    SetAttrs(self,
      [boundary_h |-> Zeros(<<self.Nt, self.N2>>),
       boundary_u |-> Zeros(<<self.Nt, self.Nk, self.N2>>),
       boundary_v |-> Zeros(<<self.Nt, self.Nk, self.N2>>),
       boundary_w |-> Zeros(<<self.Nt, self.Nk, self.N2>>),
       boundary_T |-> Zeros(<<self.Nt, self.Nk, self.N2>>),
       boundary_S |-> Zeros(<<self.Nt, self.Nk, self.N2>>),
       uc |-> Zeros(<<self.Nt, self.Nk, self.N3>>),
       vc |-> Zeros(<<self.Nt, self.Nk, self.N3>>),
       wc |-> Zeros(<<self.Nt, self.Nk, self.N3>>),
       T |-> Zeros(<<self.Nt, self.Nk, self.N3>>),
       S |-> Zeros(<<self.Nt, self.Nk, self.N3>>),
       h |-> Zeros(<<self.Nt, self.N3>>),
       boundary_Q |-> Zeros(<<self.Nt, self.Nseg>>)])

\* Boundary(suntanspath, timeinfo) on a grid directory
BoundaryInit(grd, timeinfo) ==
    initArrays(getTime(_loadBoundary([grd |-> grd, timeinfo |-> timeinfo])))

---------------------------------------------------------------------------
(* Boundary.setDepth *)

\* dv: the depth of every cell, dv[c+1] for cell c
setDepth(self, dv) ==
    LET grad == self.grd.grad
        \* nc1[ind1] = nc2[ind1], then nc2[ind2] = nc1[ind2]: nc1 and nc2 are
        \* views of grd.grad, which is therefore modified
        nc1 == [e \in DOMAIN grad |-> IF grad[e][1] = -1 THEN grad[e][2] ELSE grad[e][1]]
        nc2 == [e \in DOMAIN grad |-> IF grad[e][2] = -1 THEN nc1[e] ELSE grad[e][2]]
        s1 == IF self.N3 > 0
              THEN SetAttrs(self,
                     [dv |-> Arr1([n \in 1..self.N3 |-> PyIndex(dv, self.cellp.data[<<n>>])])])
              ELSE self
    IN IF self.N2 > 0
       THEN SetAttrs(s1,
              [grd |-> [self.grd EXCEPT !.grad = [e \in DOMAIN grad |-> <<nc1[e], nc2[e]>>]],
               de |-> Arr1([n \in 1..self.N2 |->
                              PyIndex(dv, nc1[self.edgep.data[<<n, 1>>] + 1])])])
       ELSE s1

---------------------------------------------------------------------------
(* The external data sources.  A source is a number src; what the external *)
(* interpolator or predictor returns for a variable is an array of the     *)
(* requested shape whose elements depend on the source, the variable and   *)
(* the position.                                                           *)

Sources == {1, 2}

VarCode == [T |-> 1, S |-> 2, h |-> 3, u |-> 4, v |-> 5]

SrcArr(src, var, shape) ==
    [shape |-> shape,
     data |-> [i \in Idx(shape) |-> src * (VarCode[var] + LinIdx(i, shape))]]

\* romsio.roms_interp(...).interp(): h, T, S, uc, vc at the type-3 cells
RomsInterp(self, src) ==
    [h |-> SrcArr(src, "h", <<self.Nt, self.N3>>),
     T |-> SrcArr(src, "T", <<self.Nt, self.Nk, self.N3>>),
     S |-> SrcArr(src, "S", <<self.Nt, self.Nk, self.N3>>),
     uc |-> SrcArr(src, "u", <<self.Nt, self.Nk, self.N3>>),
     vc |-> SrcArr(src, "v", <<self.Nt, self.Nk, self.N3>>)]

\* Interp4D(...)(data) onto n points: [Nt,Nk,n], or [Nt,n] without depth
Interp4D(self, src, var, n, withz) ==
    IF withz THEN SrcArr(src, var, <<self.Nt, self.Nk, n>>)
    ELSE SrcArr(src, var, <<self.Nt, n>>)

\* read_otps.tide_pred at n points: h, U, V of shape [Nt,n]; the velocity
\* depends on the depths z when they are given (z = <<>> stands for None)
TidePred(self, src, n, z) ==
    LET dep == [shape |-> <<self.Nt, n>>,
                data |-> [i \in Idx(<<self.Nt, n>>) |->
                            IF z = <<>> THEN 0 ELSE z.data[<<i[2]>>]]]
    IN [h |-> SrcArr(src, "h", <<self.Nt, n>>),
        U |-> ArrSum(SrcArr(src, "u", <<self.Nt, n>>), dep),
        V |-> ArrSum(SrcArr(src, "v", <<self.Nt, n>>), dep)]

\* the residual series returned by read_otps.tide_pred_correc: shape [Nt];
\* r = 0 is the zero residual
Residual(self, r) ==
    [shape |-> <<self.Nt>>, data |-> [i \in Idx(<<self.Nt>>) |-> r * i[1]]]

---------------------------------------------------------------------------
(* Array writes.  A call is the sequence of its writes to the field store; *)
(* ext marks a write that an external step (data load, interpolator        *)
(* construction, interpolation, tidal prediction) precedes since the       *)
(* previous write.                                                         *)

Wr(f, kind, k, val, ext) == [f |-> f, kind |-> kind, k |-> k, val |-> val, ext |-> ext]

ApplyWrite(self, w) ==
    [self EXCEPT ![w.f] =
        CASE w.kind = "add" -> IAdd(@, w.val)
          [] w.kind = "set" -> ISet(@, w.val)
          [] w.kind = "addlayer" -> IAddLayer(@, w.k, w.val)
          [] w.kind = "addcol" -> IAddCol(@, w.k, w.val)]

RECURSIVE ApplyWrites(_, _, _)
\* the object after the first n writes of ws
ApplyWrites(self, ws, n) ==
    IF n = 0 THEN self
    ELSE ApplyWrite(ApplyWrites(self, ws, n - 1), ws[n])

\* the numbers of completed writes at which an external step can fail
FailPoints(ws) == {k \in 0..(Len(ws) - 1) : ws[k + 1].ext}

\* the concatenation of a sequence of sequences
RECURSIVE Concat(_)
Concat(ss) == IF ss = <<>> THEN <<>> ELSE Head(ss) \o Concat(Tail(ss))

---------------------------------------------------------------------------
(* Boundary.roms2boundary *)

\* the attributes xv, yv exist only when _loadBoundary found type-3 cells
HasXv(self) == "cellp" \in DOMAIN self

\* self.T = T ; self.S = S in place of the additions
RomsTSKindSet == "set"

\* self.T+=T ; self.S+=S
RomsTSKind == "add"

roms2boundaryWrites(self, res, setUV, seth) ==
    <<Wr("T", RomsTSKind, 0, res.T, TRUE), Wr("S", RomsTSKind, 0, res.S, FALSE)>>
    \o (IF seth THEN <<Wr("h", "add", 0, res.h, FALSE)>> ELSE <<>>)
    \o (IF setUV THEN <<Wr("uc", "add", 0, res.uc, FALSE),
                        Wr("vc", "add", 0, res.vc, FALSE)>>
        ELSE <<>>)

\* a call that interpolates each variable just before adding it: an external
\* step precedes every write
roms2boundaryFailPointsLazy(self, res, setUV, seth) ==
    IF HasXv(self)
    THEN 0..(Len(roms2boundaryWrites(self, res, setUV, seth)) - 1)
    ELSE {0}

\* roms_interp needs self.xv: without it the call fails before any write
roms2boundaryFailPoints(self, res, setUV, seth) ==
    IF HasXv(self) THEN FailPoints(roms2boundaryWrites(self, res, setUV, seth)) ELSE {0}

\* the object after a call whose interpolation returned res
roms2boundary(self, res, setUV, seth) ==
    LET ws == roms2boundaryWrites(self, res, setUV, seth)
    IN ApplyWrites(self, ws, Len(ws))

---------------------------------------------------------------------------
(* Boundary.oceanmodel2bdy *)

\* self.T[:] += tempnew in place of the assignments
OceanTSKindAdd == "add"

\* self.T[:] = tempnew ; self.S[:] = saltnew, and the same for boundary_T, boundary_S
OceanTSKind == "set"

oceanmodel2bdyWrites(self, src, setUV, seth) ==
    (IF self.N3 > 0
     THEN <<Wr("T", OceanTSKind, 0, Interp4D(self, src, "T", self.N3, TRUE), TRUE),
            Wr("S", OceanTSKind, 0, Interp4D(self, src, "S", self.N3, TRUE), TRUE)>>
          \o (IF seth
              THEN <<Wr("h", "add", 0, Interp4D(self, src, "h", self.N3, FALSE), TRUE)>>
              ELSE <<>>)
     ELSE <<>>)
    \o
    (IF self.N2 > 0
     THEN <<Wr("boundary_T", OceanTSKind, 0, Interp4D(self, src, "T", self.N2, TRUE), TRUE),
            Wr("boundary_S", OceanTSKind, 0, Interp4D(self, src, "S", self.N2, TRUE), TRUE)>>
          \o (IF setUV
              THEN <<Wr("boundary_u", "add", 0, Interp4D(self, src, "u", self.N2, TRUE), TRUE),
                     Wr("boundary_v", "add", 0, Interp4D(self, src, "v", self.N2, TRUE), TRUE)>>
              ELSE <<>>)
     ELSE <<>>)

oceanmodel2bdy(self, src, setUV, seth) ==
    LET ws == oceanmodel2bdyWrites(self, src, setUV, seth)
    IN ApplyWrites(self, ws, Len(ws))

\* the data load (get_metocean_local, ll2utm, the mask) precedes every write
\* and is made whatever N2 and N3 are
oceanmodel2bdyFailPoints(self, src, setUV, seth) ==
    {0} \cup FailPoints(oceanmodel2bdyWrites(self, src, setUV, seth))

---------------------------------------------------------------------------
(* Boundary.otis2boundary *)

\* for k in range(Nk): fu[:,k,:] += U ; fv[:,k,:] += V
LayerWrites(self, fu, fv, U, V, ext) ==
    Concat([k \in 1..self.Nk |->
              <<Wr(fu, "addlayer", k, U, ext /\ k = 1),
                Wr(fv, "addlayer", k, V, FALSE)>>])

\* self.h[:] = h : the elevation is replaced
OtisHKindSet == "set"

\* self.h += h
OtisHKind == "add"

otis2boundaryWrites(self, src, setUV) ==
    (IF self.N3 > 0
     THEN LET p == TidePred(self, src, self.N3,
                            IF "dv" \in DOMAIN self THEN self.dv ELSE <<>>)
          IN <<Wr("h", OtisHKind, 0, p.h, TRUE)>>
             \o (IF setUV THEN LayerWrites(self, "uc", "vc", p.U, p.V, FALSE) ELSE <<>>)
     ELSE <<>>)
    \o
    (IF self.N2 > 0
     THEN LET p == TidePred(self, src, self.N2,
                            IF "de" \in DOMAIN self THEN self.de ELSE <<>>)
          IN LayerWrites(self, "boundary_u", "boundary_v", p.U, p.V, TRUE)
     ELSE <<>>)

otis2boundary(self, src, setUV) ==
    LET ws == otis2boundaryWrites(self, src, setUV)
    IN ApplyWrites(self, ws, Len(ws))

---------------------------------------------------------------------------
(* Boundary.otisfile2boundary *)

\* read_otps.tide_pred_correc: corr = 0 is no amplitude or phase correction
\* and a zero residual; otherwise the prediction is changed and a residual
\* is returned
TidePredCorrec(self, src, corr, n, z) ==
    LET p == TidePred(self, src, n, z)
        c == [shape |-> <<self.Nt, n>>, data |-> [i \in Idx(<<self.Nt, n>>) |-> corr]]
    IN [h |-> ArrSum(p.h, c), U |-> ArrSum(p.U, c), V |-> ArrSum(p.V, c),
        residual |-> Residual(self, corr)]

otisfile2boundaryWrites(self, src, corr, setUV) ==
    LET p == TidePredCorrec(self, src, corr, self.N3,
                            IF "dv" \in DOMAIN self THEN self.dv ELSE <<>>)
    IN <<Wr("h", "add", 0, p.h, TRUE)>>
       \o [ii \in 1..self.N3 |-> Wr("h", "addcol", ii, p.residual, FALSE)]
       \o (IF setUV THEN LayerWrites(self, "uc", "vc", p.U, p.V, FALSE) ELSE <<>>)

\* self.xv is needed: without it the call fails before any write
otisfile2boundaryFailPoints(self, src, corr, setUV) ==
    IF HasXv(self) THEN FailPoints(otisfile2boundaryWrites(self, src, corr, setUV)) ELSE {0}

otisfile2boundary(self, src, corr, setUV) ==
    LET ws == otisfile2boundaryWrites(self, src, corr, setUV)
    IN ApplyWrites(self, ws, Len(ws))

---------------------------------------------------------------------------
(* Boundary.write2NC and Boundary._loadBoundaryNC.  A NetCDF file is its   *)
(* dimensions (name -> length) and its variables (name -> array).          *)

\* tmpvar[:] = arr on a variable with the given dimensions: the unlimited
\* dimension Nt takes the length of the data; data of another shape with the
\* same number of elements is reshaped
NcPut(dims, dimnames, arr) ==
    LET target == [d \in 1..Len(dimnames) |->
                     IF dimnames[d] = "Nt" THEN arr.shape[1] ELSE dims[dimnames[d]]]
    IN IF arr.shape = target THEN arr ELSE Reshape(arr, target)

Type2Vars == <<"boundary_h", "boundary_u", "boundary_v", "boundary_w",
               "boundary_T", "boundary_S">>
Type3Vars == <<"uc", "vc", "wc", "T", "S", "h">>

\* the dimensions of a field variable in the file
FieldDims(f) ==
    CASE f = "boundary_h" -> <<"Nt", "Ntype2">>
      [] f = "h" -> <<"Nt", "Ntype3">>
      [] f = "boundary_Q" -> <<"Nt", "Nseg">>
      [] f \in {"uc", "vc", "wc", "T", "S"} -> <<"Nt", "Nk", "Ntype3">>
      [] OTHER -> <<"Nt", "Nk", "Ntype2">>

write2NC(self) ==
    LET dims == [Nk |-> self.Nk]
                @@ (IF self.N2 > 0 THEN [Ntype2 |-> self.N2] ELSE <<>>)
                @@ (IF self.N3 > 0 THEN [Ntype3 |-> self.N3] ELSE <<>>)
                @@ (IF self.Nseg > 0 THEN [Nseg |-> self.Nseg] ELSE <<>>)
        FieldVars(names) ==
            [f \in Range(names) |-> NcPut(dims, FieldDims(f), self[f])]
        vars3 == IF self.N3 > 0
                 THEN [cellp |-> NcPut(dims, <<"Ntype3">>, self.cellp)]
                      @@ FieldVars(Type3Vars)
                 ELSE <<>>
        vars2 == IF self.N2 > 0
                 THEN [edgep |-> NcPut(dims, <<"Ntype2">>, self.edgep)]
                      @@ FieldVars(Type2Vars)
                 ELSE <<>>
        varsS == IF self.Nseg > 0
                 THEN [segedgep |-> NcPut(dims, <<"Ntype2">>, self.segedgep),
                       segp |-> NcPut(dims, <<"Nseg">>, self.segp),
                       boundary_Q |-> NcPut(dims, FieldDims("boundary_Q"), self.boundary_Q)]
                 ELSE <<>>
        time == NcPut(dims, <<"Nt">>, ncTime(self))
    IN [dims |-> [Nt |-> time.shape[1]] @@ dims,
        vars |-> [time |-> time] @@ vars3 @@ vars2 @@ varsS]

\* a reader that probes the segment dimension under another name, and so
\* always takes the default 0 for it
DimLenNoSeg(nc, name) ==
    IF name \in DOMAIN nc.dims /\ name # "Nseg" THEN nc.dims[name] ELSE 0

\* nc.dimensions[name].__len__(), 0 when the file has no such dimension
DimLen(nc, name) == IF name \in DOMAIN nc.dims THEN nc.dims[name] ELSE 0

\* num2date(t, 'seconds since 1990-01-01 00:00:00')
num2date(t) == [n \in 1..t.shape[1] |-> t.data[<<n>>] + Epoch]

_loadBoundaryNC(nc) ==
    LET N2 == DimLen(nc, "Ntype2")
        N3 == DimLen(nc, "Ntype3")
        Nseg == DimLen(nc, "Nseg")
        s0 == [Nk |-> nc.dims.Nk, N2 |-> N2, N3 |-> N3, Nseg |-> Nseg,
               Nt |-> nc.dims.Nt, time |-> num2date(nc.vars.time)]
        Read(names) == [f \in names |-> nc.vars[f]]
        s3 == IF N3 > 0 THEN Read({"cellp"} \cup Range(Type3Vars)) ELSE <<>>
        s2 == IF N2 > 0 THEN Read({"edgep"} \cup Range(Type2Vars)) ELSE <<>>
        sS == IF Nseg > 0 THEN Read({"segp", "segedgep", "boundary_Q"}) ELSE <<>>
        s1 == sS @@ s2 @@ s3 @@ s0
    IN SetAttrs(s1, [tsec |-> ncTime(s1)])

---------------------------------------------------------------------------
(* The field-store lifecycle: a Boundary built fresh from a mesh, then     *)
(* source integrations and setDepth, then write2NC and a Boundary built    *)
(* from the written file.                                                  *)

\* meshes whose edges are all boundary edges, edge e on cell e-1, with
\* markers 1, 2 or 3; the first edge, when of type 2, is in segment 1
MainMeshes ==
    {m \in Meshes :
        \A e \in 1..MaxEdges :
            /\ m.grad[e] = <<(e - 1) % MaxCells, -1>>
            /\ m.mark[e] \in {1, 2, 3}
            /\ m.edge_id[e] = (IF m.mark[e] = 2 /\ e = 1 THEN 1 ELSE 0)}

\* two instants, one second apart
MainTimeInfo == <<Epoch, Epoch + 1, 1>>

\* the depths passed to setDepth: cell c has depth c + 2
DepthInput == [c \in 1..MaxCells |-> c + 1]

Call(op, src, setUV, seth, corr, ok, nw) ==
    [op |-> op, src |-> src, setUV |-> setUV, seth |-> seth, corr |-> corr,
     ok |-> ok, nw |-> nw]

\* a call that leaves the Boundary as newbnd
Record(newbnd, call, counted) ==
    /\ bnd' = newbnd
    /\ last' = call
    /\ prev' = bnd
    /\ last2' = last
    /\ prev2' = prev
    /\ budget' = IF counted THEN budget - 1 ELSE budget

CanCall == bnd # NoBnd /\ ncfile = NoFile /\ budget > 0

Init ==
    /\ mesh \in MainMeshes
    /\ bnd = BoundaryInit(mesh, MainTimeInfo)
    /\ ncfile = NoFile
    /\ loaded = NoBnd
    /\ ic = NoIC
    /\ last = NoCall
    /\ prev = NoBnd
    /\ last2 = NoCall
    /\ prev2 = NoBnd
    /\ budget = MaxCalls

Roms ==
    /\ CanCall
    /\ HasXv(bnd)
    /\ \E src \in Sources, setUV \in BOOLEAN, seth \in BOOLEAN :
          Record(roms2boundary(bnd, RomsInterp(bnd, src), setUV, seth),
                 Call("roms2boundary", src, setUV, seth, 0, TRUE, 0), TRUE)
    /\ UNCHANGED <<mesh, ncfile, loaded, ic>>

\* roms_interp or its interp raises (self.xv is missing when N3 = 0)
RomsFail ==
    /\ CanCall
    /\ \E src \in Sources, setUV \in BOOLEAN, seth \in BOOLEAN :
          \E nw \in roms2boundaryFailPoints(bnd, RomsInterp(bnd, src), setUV, seth) :
             Record(ApplyWrites(bnd, roms2boundaryWrites(bnd, RomsInterp(bnd, src), setUV, seth), nw),
                    Call("roms2boundary", src, setUV, seth, 0, FALSE, nw), TRUE)
    /\ UNCHANGED <<mesh, ncfile, loaded, ic>>

Ocean ==
    /\ CanCall
    /\ \E src \in Sources, setUV \in BOOLEAN, seth \in BOOLEAN :
          Record(oceanmodel2bdy(bnd, src, setUV, seth),
                 Call("oceanmodel2bdy", src, setUV, seth, 0, TRUE, 0), TRUE)
    /\ UNCHANGED <<mesh, ncfile, loaded, ic>>

\* an external step raises after nw writes have been made
OceanFail ==
    /\ CanCall
    /\ \E src \in Sources, setUV \in BOOLEAN, seth \in BOOLEAN :
          \E nw \in oceanmodel2bdyFailPoints(bnd, src, setUV, seth) :
             Record(ApplyWrites(bnd, oceanmodel2bdyWrites(bnd, src, setUV, seth), nw),
                    Call("oceanmodel2bdy", src, setUV, seth, 0, FALSE, nw), TRUE)
    /\ UNCHANGED <<mesh, ncfile, loaded, ic>>

Otis ==
    /\ CanCall
    /\ \E src \in Sources, setUV \in BOOLEAN :
          Record(otis2boundary(bnd, src, setUV),
                 Call("otis2boundary", src, setUV, FALSE, 0, TRUE, 0), TRUE)
    /\ UNCHANGED <<mesh, ncfile, loaded, ic>>

OtisFail ==
    /\ CanCall
    /\ \E src \in Sources, setUV \in BOOLEAN :
          \E nw \in FailPoints(otis2boundaryWrites(bnd, src, setUV)) :
             Record(ApplyWrites(bnd, otis2boundaryWrites(bnd, src, setUV), nw),
                    Call("otis2boundary", src, setUV, FALSE, 0, FALSE, nw), TRUE)
    /\ UNCHANGED <<mesh, ncfile, loaded, ic>>

OtisFile ==
    /\ CanCall
    /\ HasXv(bnd)
    /\ \E src \in Sources, corr \in {0, 1}, setUV \in BOOLEAN :
          Record(otisfile2boundary(bnd, src, corr, setUV),
                 Call("otisfile2boundary", src, setUV, FALSE, corr, TRUE, 0), TRUE)
    /\ UNCHANGED <<mesh, ncfile, loaded, ic>>

\* tide_pred_correc raises (self.xv is missing when N3 = 0)
OtisFileFail ==
    /\ CanCall
    /\ \E src \in Sources, corr \in {0, 1}, setUV \in BOOLEAN :
          \E nw \in otisfile2boundaryFailPoints(bnd, src, corr, setUV) :
             Record(ApplyWrites(bnd, otisfile2boundaryWrites(bnd, src, corr, setUV), nw),
                    Call("otisfile2boundary", src, setUV, FALSE, corr, FALSE, nw), TRUE)
    /\ UNCHANGED <<mesh, ncfile, loaded, ic>>

SetDepth ==
    /\ CanCall
    /\ Record(setDepth(bnd, DepthInput),
              Call("setDepth", 0, FALSE, FALSE, 0, TRUE, 0), TRUE)
    /\ UNCHANGED <<mesh, ncfile, loaded, ic>>

Write2NC ==
    /\ bnd # NoBnd
    /\ ncfile = NoFile
    /\ ncfile' = write2NC(bnd)
    /\ Record(bnd, Call("write2NC", 0, FALSE, FALSE, 0, TRUE, 0), FALSE)
    /\ UNCHANGED <<mesh, loaded, ic>>

\* Boundary(ncfile, 0)
LoadNC ==
    /\ ncfile # NoFile
    /\ loaded = NoBnd
    /\ loaded' = _loadBoundaryNC(ncfile)
    /\ Record(bnd, Call("_loadBoundaryNC", 0, FALSE, FALSE, 0, TRUE, 0), FALSE)
    /\ UNCHANGED <<mesh, ncfile, ic>>

Next ==
    \/ Roms \/ RomsFail
    \/ Ocean \/ OceanFail
    \/ Otis \/ OtisFail
    \/ OtisFile \/ OtisFileFail
    \/ SetDepth
    \/ Write2NC
    \/ LoadNC

Spec == Init /\ [][Next]_vars

\* accumulation alone: roms2boundary and oceanmodel2bdy calls that succeed
InitAcc ==
    /\ mesh \in MainMeshes
    /\ bnd = BoundaryInit(mesh, MainTimeInfo)
    /\ ncfile = NoFile
    /\ loaded = NoBnd
    /\ ic = NoIC
    /\ last = NoCall
    /\ prev = NoBnd
    /\ last2 = NoCall
    /\ prev2 = NoBnd
    /\ budget = MaxAccCalls

NextAcc == Roms \/ Ocean

SpecAcc == InitAcc /\ [][NextAcc]_vars

---------------------------------------------------------------------------
(* modifyBCmarker.  A polygon of the shapefile is the set of edges (their  *)
(* positions 1..MaxEdges) whose midpoints it contains, with the values of  *)
(* its fields 'marker' and 'edge_id'.                                      *)

NoShp == [noshp |-> TRUE]     \* bcfile == None

\* readShpPoly(bcfile, FIELDNAME): the polygons and their values of the
\* field; nothing when the shapefile has no such field
readShpPoly(shp, field) ==
    IF field \in shp.fields
    THEN [XY |-> [n \in DOMAIN shp.polys |-> shp.polys[n].inside],
          val |-> [n \in DOMAIN shp.polys |-> shp.polys[n][field]]]
    ELSE [XY |-> <<>>, val |-> <<>>]

\* inpolygon(edges.T, xpoly) on the midpoints of the open edges
inpolygon(e, xpoly) == e \in xpoly

\* the pass without the selection "ind0 = grd.mark>0": every edge inside the
\* polygon is rewritten, whatever its marker
PolygonPassStaleSelection(grd, xpoly, bctype, segmentID) ==
    LET ind1 == [e \in DOMAIN grd.mark |-> inpolygon(e, xpoly)]
    IN [grd EXCEPT
          !.edge_id = [e \in DOMAIN grd.mark |->
                         IF bctype = 4 /\ ind1[e] THEN segmentID ELSE @[e]],
          !.mark = [e \in DOMAIN grd.mark |->
                      IF ind1[e] THEN (IF bctype = 4 THEN 2 ELSE bctype) ELSE @[e]]]

\* the pass without "bctype=2": marker 4 is written to the edges
PolygonPassNoRemap(grd, xpoly, bctype, segmentID) ==
    LET ind0 == [e \in DOMAIN grd.mark |-> grd.mark[e] > 0]
        ind1 == [e \in DOMAIN grd.mark |-> ind0[e] /\ inpolygon(e, xpoly)]
    IN [grd EXCEPT
          !.edge_id = [e \in DOMAIN grd.mark |->
                         IF bctype = 4 /\ ind1[e] THEN segmentID ELSE @[e]],
          !.mark = [e \in DOMAIN grd.mark |-> IF ind1[e] THEN bctype ELSE @[e]]]

\* one pass of the loop over zip(XY, newmarker, edge_id)
PolygonPass(grd, xpoly, bctype, segmentID) ==
    LET ind0 == [e \in DOMAIN grd.mark |-> grd.mark[e] > 0]
        ind1 == [e \in DOMAIN grd.mark |-> ind0[e] /\ inpolygon(e, xpoly)]
    IN [grd EXCEPT
          !.edge_id = [e \in DOMAIN grd.mark |->
                         IF bctype = 4 /\ ind1[e] THEN segmentID ELSE @[e]],
          !.mark = [e \in DOMAIN grd.mark |->
                      IF ind1[e] THEN (IF bctype = 4 THEN 2 ELSE bctype) ELSE @[e]]]

RECURSIVE PolygonLoop(_, _, _, _, _)
PolygonLoop(grd, XY, newmarker, edge_id, n) ==
    IF n > Len(XY) \/ n > Len(newmarker) \/ n > Len(edge_id) THEN grd
    ELSE PolygonLoop(PolygonPass(grd, XY[n], newmarker[n], edge_id[n]),
                     XY, newmarker, edge_id, n + 1)

\* the reset without "grd.edge_id = grd.mark*0": the stored tags are kept
ResetMarkersKeepTags(grd) ==
    [grd EXCEPT !.mark = [e \in DOMAIN @ |-> IF @[e] > 0 THEN 1 ELSE @[e]]]

\* grd.mark[grd.mark>0] = 1 ; grd.edge_id = grd.mark*0
ResetMarkers(grd) ==
    [grd EXCEPT !.mark = [e \in DOMAIN @ |-> IF @[e] > 0 THEN 1 ELSE @[e]],
                !.edge_id = [e \in DOMAIN grd.mark |-> 0]]

\* the check of the field "marker" alone: a file without "edge_id" polygons
\* is let through
modifyBCmarkerAbortsMarkerOnly(shp) ==
    /\ shp # NoShp
    /\ Len(readShpPoly(shp, "marker").XY) < 1

\* whether the call returns at one of its two error messages
modifyBCmarkerAborts(shp) ==
    /\ shp # NoShp
    /\ \/ Len(readShpPoly(shp, "marker").XY) < 1
       \/ Len(readShpPoly(shp, "edge_id").XY) < 1

\* the grid that grd.saveEdges writes to edges.dat; an aborted call writes
\* nothing and the stored grid stays as it is
modifyBCmarker(grd, shp) ==
    IF modifyBCmarkerAborts(shp) THEN grd
    ELSE LET XY == IF shp = NoShp THEN <<>> ELSE readShpPoly(shp, "edge_id").XY
             newmarker == IF shp = NoShp THEN <<>> ELSE readShpPoly(shp, "marker").val
             edge_id == IF shp = NoShp THEN <<>> ELSE readShpPoly(shp, "edge_id").val
         IN PolygonLoop(ResetMarkers(grd), XY, newmarker, edge_id, 1)

PolyMarkers == {0, 2, 3, 4}

Polygons == [inside : SUBSET (1..MaxEdges), marker : PolyMarkers, edge_id : 0..MaxSegId]

RECURSIVE SeqsUpTo(_, _)
\* the sequences over S of length at most n
SeqsUpTo(S, n) ==
    IF n = 0 THEN {<<>>}
    ELSE LET shorter == SeqsUpTo(S, n - 1)
         IN shorter \cup {Append(q, x) : q \in {r \in shorter : Len(r) = n - 1}, x \in S}

\* shapefiles: with both fields and up to MaxPoly polygons, or lacking a
\* field
ShpFiles ==
    {[fields |-> {"marker", "edge_id"}, polys |-> ps] : ps \in SeqsUpTo(Polygons, MaxPoly)}
    \cup {[fields |-> fs, polys |-> <<p>>] :
             fs \in {{"marker"}, {"edge_id"}, {}},
             p \in {q \in Polygons : q.inside = 1..MaxEdges /\ q.edge_id = 1}}

\* the stored grids the editor is run on: every edge a boundary edge or an
\* interior edge of marker 0, with or without a segment tag
MarkMeshes ==
    {m \in Meshes :
        \A e \in 1..MaxEdges :
            /\ m.grad[e] = <<(e - 1) % MaxCells, -1>>
            /\ m.edge_id[e] \in {0, MaxSegId}}

InitMark ==
    /\ mesh \in MarkMeshes
    /\ bnd = NoBnd
    /\ ncfile = NoFile
    /\ loaded = NoBnd
    /\ ic = NoIC
    /\ last = NoCall
    /\ prev = NoBnd
    /\ last2 = NoCall
    /\ prev2 = NoBnd
    /\ budget = 1

ModifyBCmarker ==
    /\ budget > 0
    /\ \E shp \in ShpFiles \cup {NoShp} :
          /\ mesh' = modifyBCmarker(mesh, shp)
          /\ last' = [op |-> "modifyBCmarker", shp |-> shp,
                      ok |-> ~modifyBCmarkerAborts(shp)]
    /\ prev' = mesh
    /\ budget' = budget - 1
    /\ UNCHANGED <<bnd, ncfile, loaded, last2, prev2, ic>>

NextMark == ModifyBCmarker

SpecMark == InitMark /\ [][NextMark]_vars

---------------------------------------------------------------------------
(* Topology resolution: construction from any mesh, setDepth, and a second *)
(* run of _loadBoundary on the object's own grid.                          *)

InitTopo ==
    /\ mesh \in Meshes
    /\ bnd = NoBnd
    /\ ncfile = NoFile
    /\ loaded = NoBnd
    /\ ic = NoIC
    /\ last = NoCall
    /\ prev = NoBnd
    /\ last2 = NoCall
    /\ prev2 = NoBnd
    /\ budget = MaxCalls

Construct ==
    /\ bnd = NoBnd
    /\ Record(BoundaryInit(mesh, MainTimeInfo),
              Call("__init__", 0, FALSE, FALSE, 0, TRUE, 0), FALSE)
    /\ UNCHANGED <<mesh, ncfile, loaded, ic>>

Reload ==
    /\ CanCall
    /\ Record(_loadBoundary(bnd), Call("_loadBoundary", 0, FALSE, FALSE, 0, TRUE, 0), TRUE)
    /\ UNCHANGED <<mesh, ncfile, loaded, ic>>

NextTopo == Construct \/ SetDepth \/ Reload

SpecTopo == InitTopo /\ [][NextTopo]_vars

---------------------------------------------------------------------------
(* The time axis: getTime on any time specification.                       *)

TimeInfos == (0..MaxT) \X (0..MaxT) \X (1..MaxDt)

InitTime ==
    /\ mesh \in {m \in MainMeshes : \A e \in 1..MaxEdges : m.mark[e] = 1}
    /\ bnd \in {[timeinfo |-> ti] : ti \in TimeInfos}
    /\ ncfile = NoFile
    /\ loaded = NoBnd
    /\ ic = NoIC
    /\ last = NoCall
    /\ prev = NoBnd
    /\ last2 = NoCall
    /\ prev2 = NoBnd
    /\ budget = 1

GetTime ==
    /\ "time" \notin DOMAIN bnd
    /\ Record(getTime(bnd), Call("getTime", 0, FALSE, FALSE, 0, TRUE, 0), TRUE)
    /\ UNCHANGED <<mesh, ncfile, loaded, ic>>

NextTime == GetTime

SpecTime == InitTime /\ [][NextTime]_vars

---------------------------------------------------------------------------
(* The InitialCond class.  Its arrays are attributes that roms2ic and      *)
(* suntans2ic rebind to new arrays and that oceanmodel2ic and setAgeSource *)
(* write in place.                                                         *)

\* the number of instants in the time list [self.time,self.time] of roms2ic
RomsICInstants == 2

ICFields == {"uc", "vc", "T", "S", "h", "agec", "agealpha", "agesource"}

ICVarCode == [T |-> 1, S |-> 2, h |-> 3, uc |-> 4, vc |-> 5, agec |-> 6, agealpha |-> 7]

\* the number of elements of an array of the given shape
RECURSIVE NumEl(_)
NumEl(shape) == IF shape = <<>> THEN 1 ELSE Head(shape) * NumEl(Tail(shape))

InitialCond_initArrays(self) ==
    SetAttrs(self,
      [uc |-> Zeros(<<1, self.Nkmax, self.Nc>>),
       vc |-> Zeros(<<1, self.Nkmax, self.Nc>>),
       T |-> Zeros(<<1, self.Nkmax, self.Nc>>),
       S |-> Zeros(<<1, self.Nkmax, self.Nc>>),
       h |-> Zeros(<<1, self.Nc>>),
       agec |-> Zeros(<<1, self.Nkmax, self.Nc>>),
       agealpha |-> Zeros(<<1, self.Nkmax, self.Nc>>),
       agesource |-> Zeros(<<self.Nkmax, self.Nc>>)])

\* InitialCond(suntanspath, timestep): the object is the Grid itself
InitialCond_init(grd) ==
    InitialCond_initArrays([Nkmax |-> grd.Nkmax, Nc |-> MaxCells])

\* an array of an external source for a variable of the initial condition
ICSrcArr(src, var, shape) ==
    [shape |-> shape,
     data |-> [i \in Idx(shape) |-> src * (ICVarCode[var] + LinIdx(i, shape))]]

\* a *= 0 : in place
IMulZero(a) == [shape |-> a.shape, data |-> [i \in Idx(a.shape) |-> 0]]

\* romsi.interp() for a time list of nt instants: h, T, S, uc, vc
RomsInterpIC(self, src, nt) ==
    [h |-> ICSrcArr(src, "h", <<nt, self.Nc>>),
     T |-> ICSrcArr(src, "T", <<nt, self.Nkmax, self.Nc>>),
     S |-> ICSrcArr(src, "S", <<nt, self.Nkmax, self.Nc>>),
     uc |-> ICSrcArr(src, "uc", <<nt, self.Nkmax, self.Nc>>),
     vc |-> ICSrcArr(src, "vc", <<nt, self.Nkmax, self.Nc>>)]

\* self.h, self.T, self.S, self.uc, self.vc = romsi.interp(): the attributes
\* are rebound to the arrays the interpolator returns
roms2ic(self, res, setUV, seth) ==
    SetAttrs(self,
      [h |-> IF seth THEN res.h ELSE IMulZero(res.h),
       T |-> res.T,
       S |-> res.S,
       uc |-> IF setUV THEN res.uc ELSE IMulZero(res.uc),
       vc |-> IF setUV THEN res.vc ELSE IMulZero(res.vc)])

\* sunhis.loadData(variable=...) of one time step on the same grid: eta on
\* the cells, the other variables on layers and cells
loadData(self, var) ==
    IF var = "h" THEN ICSrcArr(1, var, <<self.Nc>>)
    ELSE ICSrcArr(1, var, <<self.Nkmax, self.Nc>>)

\* the assignments suntans2ic makes, in order; his tells which variables the
\* history file has
suntans2icSteps(his, setUV, seth) ==
    (IF seth THEN <<"h">> ELSE <<>>)
    \o (IF his.temp THEN <<"T">> ELSE <<>>)
    \o (IF his.salt THEN <<"S">> ELSE <<>>)
    \o (IF setUV THEN <<"uc", "vc">> ELSE <<>>)
    \o (IF his.agec THEN <<"agec", "agealpha">> ELSE <<>>)

\* whether the reshape of one assignment succeeds: for eta the new shape is
\* (1,self.h.shape), a tuple holding a tuple, which numpy rejects; for the
\* others it is (1,)+self.X.shape, which must have the size of the data
suntans2icStepOK(self, var) ==
    /\ var # "h"
    /\ NumEl(<<1>> \o self[var].shape) = NumEl(loadData(self, var).shape)

\* self.X = loadData(...).reshape((1,)+self.X.shape)
suntans2icStep(self, var) ==
    [self EXCEPT ![var] = Reshape(loadData(self, var), <<1>> \o self[var].shape)]

\* the object after the assignments from the n-th on, up to the first one
\* that raises; ok tells whether all of them were made
RECURSIVE suntans2icRun(_, _, _)
suntans2icRun(self, steps, n) ==
    IF n > Len(steps) THEN [obj |-> self, ok |-> TRUE]
    ELSE IF ~suntans2icStepOK(self, steps[n]) THEN [obj |-> self, ok |-> FALSE]
    ELSE suntans2icRun(suntans2icStep(self, steps[n]), steps, n + 1)

suntans2ic(self, his, setUV, seth) ==
    suntans2icRun(self, suntans2icSteps(his, setUV, seth), 1)

\* F4d(temp) / F3d(ssh) at the single instant self.time
ICInterp4D(self, src, var, withz) ==
    IF withz THEN ICSrcArr(src, var, <<1, self.Nkmax, self.Nc>>)
    ELSE ICSrcArr(src, var, <<1, self.Nc>>)

\* self.T[:] = tempnew ; self.S[:] = saltnew ; if seth: self.h[:] = sshnew
oceanmodel2ic(self, src, seth) ==
    [self EXCEPT !.T = ISet(@, ICInterp4D(self, src, "T", TRUE)),
                 !.S = ISet(@, ICInterp4D(self, src, "S", TRUE)),
                 !.h = IF seth THEN ISet(@, ICInterp4D(self, src, "h", FALSE)) ELSE @]

\* the polygons of an age-source shapefile: each is the set of cells
\* (positions 1..MaxCells) whose centre it contains
AgePolygons == SUBSET (1..MaxCells)

AgeShpFiles == SeqsUpTo(AgePolygons, MaxPoly)

\* setAgeSource raises when the shapefile has no polygons
setAgeSourceRaises(XY) == Len(XY) < 1

\* for xpoly in XY: self.agesource[:,ind1] = 1.
setAgeSource(self, XY) ==
    IF setAgeSourceRaises(XY) THEN self
    ELSE [self EXCEPT !.agesource =
            [shape |-> @.shape,
             data |-> [i \in Idx(@.shape) |->
                         IF \E n \in 1..Len(XY) : i[Len(i)] \in XY[n]
                         THEN 1 ELSE @.data[i]]]]

\* Grid.spatialfilter(v, dx) on a vector of cell values: the filtered
\* vector, of the length of v
spatialfilter(v, dx) == [n \in DOMAIN v |-> v[n] + dx]

\* the values dx passed to filteric
FilterInputs == 1..MaxFilter

\* the assignments filteric makes, in order: h, then uc, vc, S, T of every
\* layer k (1-based here)
filtericSteps(self) ==
    <<[f |-> "h", k |-> 1]>>
    \o Concat([k \in 1..self.Nkmax |->
                 <<[f |-> "uc", k |-> k], [f |-> "vc", k |-> k],
                   [f |-> "S", k |-> k], [f |-> "T", k |-> k]>>])

\* the shape of a[0,:] for h and of a[:,k,:] for the other fields: the
\* shape of a without the indexed axis
FilterSliceShape(a, f) ==
    IF f = "h" THEN Tail(a.shape)
    ELSE <<a.shape[1]>> \o SubSeq(a.shape, 3, Len(a.shape))

\* whether one assignment succeeds: the index k must exist on its axis, and
\* the filtered vector of the ravelled slice must fit the slice, which it
\* does when only the last dimension of the slice is larger than 1
filtericStepOK(self, st) ==
    LET a == self[st.f]
        sl == FilterSliceShape(a, st.f)
    IN /\ st.k <= a.shape[IF st.f = "h" THEN 1 ELSE 2]
       /\ NumEl(sl) = sl[Len(sl)]

\* a[0,:] = spatialfilter(a[0,:].ravel(),dx) for h,
\* a[:,k,:] = spatialfilter(a[:,k,:].ravel(),dx) for the other fields
filtericStep(self, st, dx) ==
    LET a == self[st.f]
        ax == IF st.f = "h" THEN 1 ELSE 2
        sl == FilterSliceShape(a, st.f)
        v == [n \in 1..NumEl(sl) |->
                a.data[CHOOSE i \in Idx(a.shape) :
                          i[ax] = st.k /\ i[Len(i)] = n]]
        w == spatialfilter(v, dx)
    IN [self EXCEPT ![st.f] =
          [shape |-> a.shape,
           data |-> [i \in Idx(a.shape) |->
                       IF i[ax] = st.k THEN w[i[Len(i)]] ELSE a.data[i]]]]

\* the object after the assignments from the n-th on, up to the first one
\* that raises; ok tells whether all of them were made
RECURSIVE filtericRun(_, _, _, _)
filtericRun(self, steps, dx, n) ==
    IF n > Len(steps) THEN [obj |-> self, ok |-> TRUE]
    ELSE IF ~filtericStepOK(self, steps[n]) THEN [obj |-> self, ok |-> FALSE]
    ELSE filtericRun(filtericStep(self, steps[n], dx), steps, dx, n + 1)

filteric(self, dx) == filtericRun(self, filtericSteps(self), dx, 1)

ICCall(op, src, setUV, seth, ok) ==
    [op |-> op, src |-> src, setUV |-> setUV, seth |-> seth, ok |-> ok]

\* a call that leaves the InitialCond as newic
ICRecord(newic, call) ==
    /\ ic' = newic
    /\ last' = call
    /\ prev' = ic
    /\ last2' = last
    /\ prev2' = prev
    /\ budget' = budget - 1
    /\ UNCHANGED <<mesh, bnd, ncfile, loaded>>

InitIC ==
    /\ mesh \in {m \in MainMeshes : \A e \in 1..MaxEdges : m.mark[e] = 1}
    /\ bnd = NoBnd
    /\ ncfile = NoFile
    /\ loaded = NoBnd
    /\ ic = InitialCond_init(mesh)
    /\ last = NoCall
    /\ prev = NoIC
    /\ last2 = NoCall
    /\ prev2 = NoIC
    /\ budget = MaxCalls

Roms2IC ==
    /\ budget > 0
    /\ \E src \in Sources, nt \in {1, RomsICInstants}, setUV \in BOOLEAN, seth \in BOOLEAN :
          ICRecord(roms2ic(ic, RomsInterpIC(ic, src, nt), setUV, seth),
                   ICCall("roms2ic", src, setUV, seth, TRUE))

Suntans2IC ==
    /\ budget > 0
    /\ \E his \in [temp : BOOLEAN, salt : BOOLEAN, agec : BOOLEAN],
          setUV \in BOOLEAN, seth \in BOOLEAN :
          LET r == suntans2ic(ic, his, setUV, seth)
          IN ICRecord(r.obj, ICCall("suntans2ic", 1, setUV, seth, r.ok))

Oceanmodel2IC ==
    /\ budget > 0
    /\ \E src \in Sources, setUV \in BOOLEAN, seth \in BOOLEAN :
          ICRecord(oceanmodel2ic(ic, src, seth),
                   ICCall("oceanmodel2ic", src, setUV, seth, TRUE))

SetAgeSource ==
    /\ budget > 0
    /\ \E XY \in AgeShpFiles :
          ICRecord(setAgeSource(ic, XY),
                   ICCall("setAgeSource", 0, FALSE, FALSE, ~setAgeSourceRaises(XY)))

Filteric ==
    /\ budget > 0
    /\ \E dx \in FilterInputs :
          LET r == filteric(ic, dx)
          IN ICRecord(r.obj, ICCall("filteric", dx, FALSE, FALSE, r.ok))

NextIC == Roms2IC \/ Suntans2IC \/ Oceanmodel2IC \/ SetAgeSource \/ Filteric

SpecIC == InitIC /\ [][NextIC]_vars

---------------------------------------------------------------------------
(* Boundary.__call__: time interpolation of a field, with the interp1d     *)
(* object of each field kept in the attribute _I_<varname>.  interp1d      *)
(* copies the array it is given, so the object holds the values the field  *)
(* had when it was built, and it raises when the time axis has fewer       *)
(* points than the order of the method plus one.  Queries are made at the  *)
(* instants of the time axis, where the interpolant of either method       *)
(* equals its data, and at an instant outside the axis, where fill_value=0 *)
(* applies.                                                                *)

\* the fields queried
QueryVars == {"h", "boundary_u"}

\* iclass = '_I_%s'%varname
IClass(varname) == IF varname = "h" THEN "_I_h" ELSE "_I_boundary_u"

\* the values of the argument method: the default and the linear one
Methods == {"quadratic", "linear"}

\* the order of the interpolant of a method
InterpOrder(kind) == IF kind = "linear" THEN 1 ELSE 2

\* interp1d raises ValueError when x has fewer than order + 1 entries
interp1dRaises(x, kind) == x.shape[1] < InterpOrder(kind) + 1

\* interp1d(self.tsec, self[varname][:], kind=method, axis=0,
\* bounds_error=False, fill_value=0): the abscissae, a copy of the values
\* and the method
interp1d(x, y, kind) == [x |-> x, y |-> y, kind |-> kind]

\* interp1d built at every query from the present values of the field
LiveInterp(self, varname, method) == interp1d(self.tsec, self[varname], method)

\* the interpolator kept in self._I_<varname>
CachedInterp(self, varname) == self[IClass(varname)]

\* y[n,...]: the values at one position of the first axis
Slice(a, n) ==
    [shape |-> Tail(a.shape),
     data |-> [i \in Idx(Tail(a.shape)) |-> a.data[<<n>> \o i]]]

\* the interpolant evaluated at tsec: its data at an instant of the axis,
\* zero outside the axis
EvalInterp(I, tsec) ==
    IF \E n \in 1..I.x.shape[1] : I.x.data[<<n>>] = tsec
    THEN Slice(I.y, CHOOSE n \in 1..I.x.shape[1] : I.x.data[<<n>>] = tsec)
    ELSE Zeros(Tail(I.y.shape))

\* whether self(tsec, varname, method) raises: the interpolator has to be
\* built and interp1d raises, so that setattr is not reached
CallRaises(self, varname, method) ==
    /\ IClass(varname) \notin DOMAIN self
    /\ interp1dRaises(self.tsec, method)

\* the object after self(tsec, varname, method): the interpolator is built
\* on the first query of the field only, and not at all when interp1d raises
SetInterp(self, varname, method) ==
    IF IClass(varname) \in DOMAIN self \/ CallRaises(self, varname, method) THEN self
    ELSE (IClass(varname) :> LiveInterp(self, varname, method)) @@ self

\* the array self(tsec, varname, method) returns when it does not raise
CallResult(self, tsec, varname, method) ==
    EvalInterp(CachedInterp(SetInterp(self, varname, method), varname), tsec)

\* the time axes of the queried objects: two instants and three instants
QueryTimeInfos == {MainTimeInfo, <<Epoch, Epoch + 2, 1>>}

\* the instants queried: those of the time axis and one after its end
QueryTimes(self) ==
    {self.tsec.data[i] : i \in Idx(self.tsec.shape)}
       \cup {self.tsec.data[<<self.Nt>>] + 1}

InitQuery ==
    /\ mesh \in MainMeshes
    /\ bnd \in {BoundaryInit(mesh, ti) : ti \in QueryTimeInfos}
    /\ ncfile = NoFile
    /\ loaded = NoBnd
    /\ ic = NoIC
    /\ last = NoCall
    /\ prev = NoBnd
    /\ last2 = NoCall
    /\ prev2 = NoBnd
    /\ budget = MaxQueryCalls

\* Boundary(tsec, varname, method) that returns an array
Query ==
    /\ bnd # NoBnd
    /\ \E varname \in QueryVars, tsec \in QueryTimes(bnd), method \in Methods :
          /\ ~CallRaises(bnd, varname, method)
          /\ Record(SetInterp(bnd, varname, method),
                    [op |-> "__call__", varname |-> varname, tsec |-> tsec,
                     method |-> method, ok |-> TRUE,
                     result |-> CallResult(bnd, tsec, varname, method)], FALSE)
    /\ UNCHANGED <<mesh, ncfile, loaded, ic>>

\* Boundary(tsec, varname, method) in which interp1d raises: nothing is
\* returned and no attribute is set
QueryFail ==
    /\ bnd # NoBnd
    /\ \E varname \in QueryVars, tsec \in QueryTimes(bnd), method \in Methods :
          /\ CallRaises(bnd, varname, method)
          /\ Record(SetInterp(bnd, varname, method),
                    [op |-> "__call__", varname |-> varname, tsec |-> tsec,
                     method |-> method, ok |-> FALSE], FALSE)
    /\ UNCHANGED <<mesh, ncfile, loaded, ic>>

NextQuery == Otis \/ Query \/ QueryFail

SpecQuery == InitQuery /\ [][NextQuery]_vars

---------------------------------------------------------------------------
(* Properties *)

SourceOps == {"roms2boundary", "oceanmodel2bdy", "otis2boundary", "otisfile2boundary"}

NonZero(a) == \E i \in Idx(a.shape) : a.data[i] # 0

\* the shape initArrays gives field f of object b
ExpectedShape(b, f) ==
    CASE f = "boundary_h" -> <<b.Nt, b.N2>>
      [] f = "h" -> <<b.Nt, b.N3>>
      [] f = "boundary_Q" -> <<b.Nt, b.Nseg>>
      [] f \in {"uc", "vc", "wc", "T", "S"} -> <<b.Nt, b.Nk, b.N3>>
      [] OTHER -> <<b.Nt, b.Nk, b.N2>>

\* C1: write2NC followed by Boundary(ncfile) gives the same Nt, N2, N3 and
\* Nseg and, for every class of nonzero cardinality, field arrays equal
\* element by element and index arrays holding the same values in order
\* (edgep and segedgep have shape (N2,1) in the fresh object and (N2,) in the
\* file).
C1_RoundTrip ==
    loaded # NoBnd =>
       /\ loaded.Nt = bnd.Nt
       /\ loaded.N2 = bnd.N2
       /\ loaded.N3 = bnd.N3
       /\ loaded.Nseg = bnd.Nseg
       /\ bnd.N3 > 0 =>
             /\ \A f \in Range(Type3Vars) : loaded[f] = bnd[f]
             /\ Flat(loaded.cellp) = Flat(bnd.cellp)
       /\ bnd.N2 > 0 =>
             /\ \A f \in Range(Type2Vars) : loaded[f] = bnd[f]
             /\ Flat(loaded.edgep) = Flat(bnd.edgep)
       /\ bnd.Nseg > 0 =>
             /\ loaded.boundary_Q = bnd.boundary_Q
             /\ Flat(loaded.segp) = Flat(bnd.segp)
             /\ Flat(loaded.segedgep) = Flat(bnd.segedgep)

\* a Boundary with all three classes, mutated by two calls, written and read
C1_Witness ==
    /\ loaded # NoBnd
    /\ bnd.N2 > 0 /\ bnd.N3 > 0 /\ bnd.Nseg > 0
    /\ NonZero(bnd.T) /\ NonZero(bnd.boundary_u) /\ NonZero(bnd.h)

\* C2: two successive roms2boundary calls with results A and B leave T and S
\* equal to the old T and S plus A plus B, which is what a single call with
\* result A+B leaves, and what the two calls made in the other order leave.
C2_RomsAdditive ==
    (/\ last.op = "roms2boundary" /\ last.ok
     /\ last2.op = "roms2boundary" /\ last2.ok) =>
       LET A == RomsInterp(prev2, last2.src)
           B == RomsInterp(prev, last.src)
           AB == [f \in DOMAIN A |-> ArrSum(A[f], B[f])]
           single == roms2boundary(prev2, AB, FALSE, FALSE)
           swapped == roms2boundary(roms2boundary(prev2, B, last.setUV, last.seth),
                                    A, last2.setUV, last2.seth)
       IN /\ bnd.T = ArrSum(prev2.T, AB.T)
          /\ bnd.S = ArrSum(prev2.S, AB.S)
          /\ bnd.T = single.T /\ bnd.S = single.S
          /\ bnd.T = swapped.T /\ bnd.S = swapped.S

\* two roms2boundary calls from different sources on a store that already
\* holds temperature and salinity
C2_Witness ==
    /\ last.op = "roms2boundary" /\ last.ok
    /\ last2.op = "roms2boundary" /\ last2.ok
    /\ last.src # last2.src
    /\ NonZero(prev2.T) /\ NonZero(prev2.S)

\* C3: after oceanmodel2bdy, T and S (when N3 > 0) and boundary_T and
\* boundary_S (when N2 > 0) are exactly the arrays interpolated in that call,
\* whatever they held before.
C3_OceanOverwrites ==
    (last.op = "oceanmodel2bdy" /\ last.ok) =>
       /\ bnd.N3 > 0 =>
             /\ bnd.T = Interp4D(prev, last.src, "T", prev.N3, TRUE)
             /\ bnd.S = Interp4D(prev, last.src, "S", prev.N3, TRUE)
       /\ bnd.N2 > 0 =>
             /\ bnd.boundary_T = Interp4D(prev, last.src, "T", prev.N2, TRUE)
             /\ bnd.boundary_S = Interp4D(prev, last.src, "S", prev.N2, TRUE)

\* a gridded-analysis call after a regional-model call and a gridded-analysis
\* call from another source, on a Boundary with both classes
C3_Witness ==
    /\ last.op = "oceanmodel2bdy" /\ last.ok
    /\ last2.op = "oceanmodel2bdy" /\ last2.src # last.src
    /\ bnd.N3 > 0 /\ bnd.N2 > 0
    /\ prev.T # prev2.T
    /\ NonZero(prev2.T)

\* C4: every field array has the shape initArrays gave it, in every state:
\* [Nt,N2], [Nt,Nk,N2], [Nt,N3], [Nt,Nk,N3], [Nt,Nseg]; and it is all zeros
\* before the first call.
C4_ShapeInvariant ==
    bnd # NoBnd =>
       LET fresh == BoundaryInit(mesh, MainTimeInfo)
       IN \A f \in FieldNames :
             /\ bnd[f].shape = ExpectedShape(fresh, f)
             /\ DOMAIN bnd[f].data = Idx(bnd[f].shape)
             /\ last = NoCall => ~NonZero(bnd[f])

\* a tidal call with velocities, after setDepth, on a Boundary whose type-3
\* class is empty
C4_Witness ==
    /\ last.op = "otis2boundary" /\ last.ok /\ last.setUV
    /\ last2.op = "setDepth"
    /\ bnd.N3 = 0 /\ bnd.N2 > 0
    /\ NonZero(bnd.boundary_u)

\* the type-3 edges of the stored mesh (positions 1..MaxEdges)
Type3Edges == {e \in 1..MaxEdges : mesh.mark[e] = 3}

\* the adjacent cell of an edge: the first adjacency entry that is not -1
AdjCell(e) == IF mesh.grad[e][1] # -1 THEN mesh.grad[e][1] ELSE mesh.grad[e][2]

\* cellIndices of the object: empty when the attribute cellp was never set
CellIndices(b) == IF "cellp" \in DOMAIN b THEN Flat(b.cellp) ELSE <<>>

Type3Resolved(b) ==
    /\ CellIndices(b) = SetToSortedSeq({AdjCell(e) : e \in Type3Edges})
    /\ b.N3 = Len(CellIndices(b))
    /\ b.N3 <= Cardinality(Type3Edges)
    /\ (b.N3 = Cardinality(Type3Edges)) <=>
          (\A e1, e2 \in Type3Edges : e1 # e2 => AdjCell(e1) # AdjCell(e2))

\* C5 as claimed, for any mesh: each marker-3 edge contributes exactly one
\* adjacent cell, cellIndices is the sorted duplicate-free set of those
\* cells, N3 <= K, and N3 = K exactly when no two marker-3 edges share a cell.
C5_Type3AnyMesh ==
    last.op = "__init__" => Type3Resolved(bnd)

TimeAxisOf(b) ==
    LET S == b.timeinfo[1]
        E == b.timeinfo[2]
        D == b.timeinfo[3]
    IN /\ b.Nt = ((E - S) \div D) + 1
       /\ Len(b.time) = b.Nt
       /\ b.Nt >= 1
       /\ b.time[1] = S
       /\ \A n \in 1..(b.Nt - 1) : b.time[n + 1] - b.time[n] = D
       /\ b.time[b.Nt] <= E
       /\ b.time[b.Nt] + D > E
       /\ (b.time[b.Nt] - S) % D = 0

\* C6 as claimed, for every start, end and step: Nt = floor((E-S)/D) + 1, the
\* first instant is S, consecutive instants differ by D, and the last
\* instant is the largest S + k*D that is <= E.
C6_TimeAxisAny ==
    "time" \in DOMAIN bnd => TimeAxisOf(bnd)

\* C6, amended: the same for every start S, end E >= S and step D > 0.
C6_TimeAxis ==
    ("time" \in DOMAIN bnd /\ bnd.timeinfo[1] <= bnd.timeinfo[2]) => TimeAxisOf(bnd)

\* a time axis of several instants whose step does not divide the span
C6_Witness ==
    /\ "time" \in DOMAIN bnd
    /\ bnd.timeinfo[1] <= bnd.timeinfo[2]
    /\ bnd.Nt >= 3
    /\ bnd.time[bnd.Nt] < bnd.timeinfo[2]

\* the result claimed for a call without polygons: nonzero markers become 1,
\* zero markers stay 0, no segment tag is left
MarkersClosed ==
    \A e \in 1..MaxEdges :
       /\ prev.mark[e] # 0 => mesh.mark[e] = 1
       /\ prev.mark[e] = 0 => mesh.mark[e] = 0
       /\ mesh.edge_id[e] = 0

\* an input that gives the polygon loop nothing to iterate over
YieldsNoPolygons(shp) ==
    \/ shp = NoShp
    \/ Len(readShpPoly(shp, "marker").XY) = 0
    \/ Len(readShpPoly(shp, "edge_id").XY) = 0

\* C7 as claimed: after modifyBCmarker with any input that yields no polygons
\* every nonzero marker is 1, every zero marker is 0, and the stored mesh has
\* no segment tag.
C7_NoPolygonsAnyInput ==
    (last.op = "modifyBCmarker" /\ YieldsNoPolygons(last.shp)) => MarkersClosed

\* C7, amended: the same after modifyBCmarker called without a polygon file
\* (bcfile None).
C7_NoPolygonFile ==
    (last.op = "modifyBCmarker" /\ last.shp = NoShp) => MarkersClosed

\* a call without a polygon file on a mesh with a tagged type-2 edge and an
\* interior edge
C7_Witness ==
    /\ last.op = "modifyBCmarker" /\ last.shp = NoShp
    /\ \E e \in 1..MaxEdges : prev.mark[e] = 2 /\ prev.edge_id[e] > 0
    /\ \E e \in 1..MaxEdges : prev.mark[e] = 0

\* a shapefile with the two fields and a single polygon of marker 4 and a
\* positive segment id that contains every edge whose marker is > 0
OneFluxPolygon(shp, grd) ==
    /\ shp # NoShp
    /\ shp.fields = {"marker", "edge_id"}
    /\ Len(shp.polys) = 1
    /\ shp.polys[1].marker = 4
    /\ shp.polys[1].edge_id > 0
    /\ {e \in 1..MaxEdges : grd.mark[e] > 0} \subseteq shp.polys[1].inside

\* C8: after modifyBCmarker with one such polygon of segment id s, every edge
\* that had a marker > 0 has marker 2 and tag s, no edge has marker 4, and
\* every edge that had marker 0 has marker 0 and tag 0.
C8_OneFluxPolygon ==
    (last.op = "modifyBCmarker" /\ OneFluxPolygon(last.shp, prev)) =>
       \A e \in 1..MaxEdges :
          /\ prev.mark[e] > 0 =>
                mesh.mark[e] = 2 /\ mesh.edge_id[e] = last.shp.polys[1].edge_id
          /\ mesh.mark[e] # 4
          /\ prev.mark[e] = 0 => mesh.mark[e] = 0 /\ mesh.edge_id[e] = 0

\* such a call on a mesh with a type-3 edge and a tagged interior edge that
\* the polygon contains too
C8_Witness ==
    /\ last.op = "modifyBCmarker" /\ OneFluxPolygon(last.shp, prev)
    /\ last.shp.polys[1].edge_id = MaxSegId
    /\ \E e \in 1..MaxEdges : prev.mark[e] = 3
    /\ \E e \in 1..MaxEdges :
          prev.mark[e] = 0 /\ prev.edge_id[e] > 0 /\ e \in last.shp.polys[1].inside

\* the elevation and velocity arrays of both classes
TidalFields == {"h", "uc", "vc", "boundary_h", "boundary_u", "boundary_v"}

\* C9 as claimed: when the corrected predictor returns a zero residual and
\* the uncorrected prediction, otisfile2boundary leaves h, uc, vc,
\* boundary_h, boundary_u and boundary_v as otis2boundary with the same
\* setUV leaves them from the same store.
C9_TidalEquivalence ==
    (last.op = "otisfile2boundary" /\ last.ok /\ last.corr = 0) =>
       \A f \in TidalFields : bnd[f] = otis2boundary(prev, last.src, last.setUV)[f]

\* C10 as claimed: a source-integration call that fails leaves every field
\* array as it was before the call.
C10_FailureAtomic ==
    (last.op \in SourceOps /\ ~last.ok) =>
       \A f \in FieldNames : bnd[f] = prev[f]

\* the writes of the last call, from the object it started from
LastWrites ==
    CASE last.op = "roms2boundary" ->
            roms2boundaryWrites(prev, RomsInterp(prev, last.src), last.setUV, last.seth)
      [] last.op = "oceanmodel2bdy" ->
            oceanmodel2bdyWrites(prev, last.src, last.setUV, last.seth)
      [] last.op = "otis2boundary" ->
            otis2boundaryWrites(prev, last.src, last.setUV)
      [] last.op = "otisfile2boundary" ->
            otisfile2boundaryWrites(prev, last.src, last.corr, last.setUV)

\* C10, amended: a failed roms2boundary or otisfile2boundary call, and an
\* oceanmodel2bdy or otis2boundary call that fails before its first array
\* write, leaves every field array as it was; an oceanmodel2bdy or
\* otis2boundary call that fails at a later external step leaves the arrays
\* it wrote before that step changed and every other array as it was.
C10_FailureKeepsUnwritten ==
    (last.op \in SourceOps /\ ~last.ok) =>
       /\ last.op \in {"roms2boundary", "otisfile2boundary"} => last.nw = 0
       /\ last.nw = 0 => \A f \in FieldNames : bnd[f] = prev[f]
       /\ \A f \in FieldNames \ {LastWrites[n].f : n \in 1..last.nw} : bnd[f] = prev[f]

\* a regional-model call that fails on a Boundary with type-3 cells whose
\* store is already populated
C10_Witness ==
    /\ last.op = "roms2boundary" /\ ~last.ok
    /\ HasXv(prev)
    /\ NonZero(prev.T) /\ NonZero(prev.h)

\* the topology attributes of an object: edgeIndices, cellIndices, N2, N3, Nseg
Topology(b) ==
    [edgep |-> Flat(b.edgep), cellp |-> CellIndices(b),
     N2 |-> b.N2, N3 |-> b.N3, Nseg |-> b.Nseg]

\* C11 as claimed: no Boundary operation changes the adjacency or the markers
\* of the Boundary's own mesh object, and _loadBoundary run again on that
\* object at any point after construction, setDepth included, yields the
\* edgeIndices, cellIndices, N2, N3 and Nseg of the first resolution.
C11_TopologyIdempotent ==
    bnd # NoBnd =>
       /\ bnd.grd.grad = mesh.grad
       /\ bnd.grd.mark = mesh.mark
       /\ last.op = "_loadBoundary" =>
             Topology(bnd) = Topology(BoundaryInit(mesh, MainTimeInfo))

\* a polygon file is supplied and reading it yields no polygons for the
\* field "marker" or for the field "edge_id"
NoPolygonsRead(shp) ==
    /\ shp # NoShp
    /\ \/ Len(readShpPoly(shp, "marker").XY) = 0
       \/ Len(readShpPoly(shp, "edge_id").XY) = 0

\* C12: when a polygon file is supplied and reading it yields no polygons for
\* "marker" or for "edge_id", modifyBCmarker leaves every marker and segment
\* tag of the stored mesh as it was (the edge file is not written).
C12_AbortNoSideEffect ==
    (last.op = "modifyBCmarker" /\ NoPolygonsRead(last.shp)) =>
       /\ mesh = prev
       /\ ~last.ok

\* a file with "marker" polygons but no "edge_id" field, on a mesh with a
\* tagged type-2 edge and a type-3 edge
C12_Witness ==
    /\ last.op = "modifyBCmarker"
    /\ last.shp # NoShp
    /\ last.shp.fields = {"marker"}
    /\ \E e \in 1..MaxEdges : prev.mark[e] = 2 /\ prev.edge_id[e] > 0
    /\ \E e \in 1..MaxEdges : prev.mark[e] = 3

\* the elevation tide_pred returns at the type-3 cells of b
PredictedH3(b, src) ==
    TidePred(b, src, b.N3, IF "dv" \in DOMAIN b THEN b.dv ELSE <<>>).h

\* the elevation tide_pred returns at the type-2 edges of b
PredictedH2(b, src) ==
    TidePred(b, src, b.N2, IF "de" \in DOMAIN b THEN b.de ELSE <<>>).h

\* C13 as claimed: after otis2boundary, h is its previous value plus the
\* elevation predicted at the type-3 cells and boundary_h is its previous
\* value plus the elevation predicted at the type-2 edges.
C13_TideAddsBothElevations ==
    (last.op = "otis2boundary" /\ last.ok) =>
       /\ bnd.h = ArrSum(prev.h, PredictedH3(prev, last.src))
       /\ bnd.boundary_h = ArrSum(prev.boundary_h, PredictedH2(prev, last.src))

\* C13, amended: after otis2boundary, h is its previous value plus the
\* elevation predicted at the type-3 cells, and boundary_h is unchanged.
C13_TideAddsCellElevation ==
    (last.op = "otis2boundary" /\ last.ok) =>
       /\ bnd.h = ArrSum(prev.h, PredictedH3(prev, last.src))
       /\ bnd.boundary_h = prev.boundary_h

\* a tidal call on a Boundary with both classes whose h already holds an
\* earlier contribution
C13_Witness ==
    /\ last.op = "otis2boundary" /\ last.ok
    /\ prev.N3 > 0 /\ prev.N2 > 0
    /\ NonZero(prev.h)
    /\ bnd.h # prev.h
    /\ NonZero(PredictedH2(prev, last.src))

\* the velocity arrays of both classes
VelocityFields == {"uc", "vc", "wc", "boundary_u", "boundary_v", "boundary_w"}

\* C14 as claimed: a source-integration call made with setUV false leaves
\* every velocity array (uc, vc, wc, boundary_u, boundary_v, boundary_w)
\* exactly as it was.
C14_VelocityOnlyOnRequest ==
    (last.op \in SourceOps /\ ~last.setUV) =>
       \A f \in VelocityFields : bnd[f] = prev[f]

\* segmentIds of the object: empty when the attribute segp was never set
SegmentIds(b) == IF "segp" \in DOMAIN b THEN Flat(b.segp) ELSE <<>>

\* edgeToSegment of the object: empty when there is no type-2 edge
EdgeToSegment(b) == IF "segedgep" \in DOMAIN b THEN Flat(b.segedgep) ELSE <<>>

\* the type-2 edges of the stored mesh (positions 1..MaxEdges)
Type2Edges == {e \in 1..MaxEdges : mesh.mark[e] = 2}

\* C15 as claimed: segmentIds is the sorted set of the positive segment tags
\* of the marker-2 edges (a positive tag on an edge of another marker
\* contributes nothing to segmentIds or Nseg), every id in segmentIds is the
\* edgeToSegment value of a type-2 edge, every nonzero edgeToSegment value is
\* in segmentIds, and edgeToSegment is 0 for a type-2 edge without a tag.
C15_SegmentsOfType2Only ==
    last.op = "__init__" =>
       LET ids == SegmentIds(bnd)
           e2s == EdgeToSegment(bnd)
           edgeIndices == Flat(bnd.edgep)
       IN /\ ids = SetToSortedSeq({mesh.edge_id[e] : e \in {x \in Type2Edges : mesh.edge_id[x] > 0}})
          /\ bnd.Nseg = Len(ids)
          /\ \A n \in 1..Len(ids) : \E k \in 1..Len(e2s) : e2s[k] = ids[n]
          /\ \A k \in 1..Len(e2s) : e2s[k] # 0 => \E n \in 1..Len(ids) : ids[n] = e2s[k]
          /\ \A k \in 1..Len(e2s) : mesh.edge_id[edgeIndices[k] + 1] = 0 => e2s[k] = 0

\* the marker a polygon writes: 4 is remapped to 2
WrittenMarker(p) == IF p.marker = 4 THEN 2 ELSE p.marker

\* the polygons of a call that reaches the loop
AppliedPolygons(shp) == IF shp = NoShp THEN <<>> ELSE shp.polys

\* the final marker the ordering rule gives an edge that was nonzero before
\* the call: 1 if no polygon contains it, 0 if a polygon of marker 0
\* contains it, otherwise the marker of the last polygon containing it
OrderedMarker(e, polys) ==
    LET containing == {n \in 1..Len(polys) : e \in polys[n].inside}
        zeroing == {n \in containing : polys[n].marker = 0}
    IN IF containing = {} THEN 1
       ELSE IF zeroing # {} THEN 0
       ELSE WrittenMarker(polys[CHOOSE n \in containing : \A k \in containing : k <= n])

\* C16: polygons are applied in input order and change only edges whose
\* marker is > 0 when they are applied: an edge that was nonzero before the
\* call ends with the marker (4 as 2) of the last polygon containing it
\* among those applied before it became 0, with 1 if none contains it, and
\* an edge set to 0 by a polygon is not changed by a later one; an edge that
\* was 0 stays 0.
C16_PolygonOrder ==
    (last.op = "modifyBCmarker" /\ last.ok) =>
       \A e \in 1..MaxEdges :
          mesh.mark[e] = (IF prev.mark[e] > 0
                          THEN OrderedMarker(e, AppliedPolygons(last.shp))
                          ELSE 0)

\* polygons over one open edge, the first of marker 0 and the last of
\* marker 3: the edge ends with marker 0
C16_Witness ==
    /\ last.op = "modifyBCmarker" /\ last.ok
    /\ last.shp # NoShp
    /\ Len(last.shp.polys) = MaxPoly
    /\ \E e \in 1..MaxEdges :
          /\ prev.mark[e] > 0
          /\ e \in last.shp.polys[1].inside /\ e \in last.shp.polys[MaxPoly].inside
          /\ last.shp.polys[1].marker = 0 /\ last.shp.polys[MaxPoly].marker = 3
          /\ mesh.mark[e] = 0

\* C18 as claimed: after modifyBCmarker, for every sequence of polygons,
\* every edge with a nonzero segment tag has marker 2.
C18_TaggedEdgesAreType2 ==
    (last.op = "modifyBCmarker" /\ last.ok) =>
       \A e \in 1..MaxEdges : mesh.edge_id[e] # 0 => mesh.mark[e] = 2

\* C17 as claimed: after construction and after any sequence of roms2ic,
\* suntans2ic, oceanmodel2ic and setAgeSource calls, h has shape [1,Nc] and
\* uc, vc, T, S, the age concentration, the age sensitivity and the
\* age-source mask each have shape [1,Nk,Nc].
C17_ICShapeInvariant ==
    ic # NoIC =>
       /\ ic.h.shape = <<1, ic.Nc>>
       /\ \A f \in ICFields \ {"h"} : ic[f].shape = <<1, ic.Nkmax, ic.Nc>>

\* C19 as claimed: a query Boundary(tsec, varname) that returns is computed
\* from the values the field has when the query is made: at an instant of
\* the time axis it returns the field's present values at that instant.
C19_QuerySeesCurrentStore ==
    (last.op = "__call__" /\ last.ok /\ \E n \in 1..bnd.Nt : bnd.tsec.data[<<n>>] = last.tsec) =>
       last.result = Slice(bnd[last.varname],
                           CHOOSE n \in 1..bnd.Nt : bnd.tsec.data[<<n>>] = last.tsec)

===========================================================================
